---- MODULE Spec2Model ----
(***************************************************************************)
(* Monte Carlo objectives of probtorch (probtorch/objectives/montecarlo.py):*)
(* elbo, log_like, kl and ml over two traces q (encoder) and p (decoder).   *)
(*                                                                         *)
(* Numbers are exact rationals <<n, d>> (d > 0, lowest terms); floating     *)
(* point rounding is not modelled.  A tensor is a sequence (dimension 0) of *)
(* rows (dimension 1); a tensor with fewer than two dimensions has trailing *)
(* dimensions of size 1.  The exponential inside softmax is taken to the    *)
(* integer base ExpBase, so that importance weights are exact rationals.    *)
(***************************************************************************)
EXTENDS Integers, Sequences, FiniteSets, TLC

\* ------------------------------------------------------------- bounds
\* Size of axis 0 and of axis 1 of every node's log-probability tensor.
Dim0 == 2
Dim1 == 3
\* Log-probabilities of a node lie in -MaxVal .. 0.
MaxVal == 2

\* ---------------------------------------------------------- rationals
Abs(n) == IF n < 0 THEN -n ELSE n

RECURSIVE Gcd(_, _)
Gcd(a, b) == IF b = 0 THEN a ELSE Gcd(b, a % b)

Rat(n, d) ==
    LET g == Gcd(Abs(n), d) IN <<n \div g, d \div g>>

RInt(n) == <<n, 1>>
RZero == RInt(0)
ROne == RInt(1)
RAdd(a, b) ==
    LET g == Gcd(a[2], b[2])
        l == (a[2] \div g) * b[2]
    IN  Rat(a[1] * (l \div a[2]) + b[1] * (l \div b[2]), l)
RNeg(a) == <<-a[1], a[2]>>
RSub(a, b) == RAdd(a, RNeg(b))
RMul(a, b) ==
    LET g1 == Gcd(Abs(a[1]), b[2])
        g2 == Gcd(Abs(b[1]), a[2])
    IN  <<(a[1] \div g1) * (b[1] \div g2), (a[2] \div g2) * (b[2] \div g1)>>
RDivInt(a, k) == RMul(a, <<1, k>>)

RECURSIVE RSumSeq(_)
RSumSeq(s) == IF s = <<>> THEN RZero ELSE RAdd(Head(s), RSumSeq(Tail(s)))

\* ------------------------------------------------------------ tensors
Rows(t) == Len(t)
Cols(t) == Len(t[1])
\* The tensor of shape rows x cols whose element <<i, j>> is E(i, j), held
\* as a tuple of tuples.
Tuple(f) == f \o <<>>
Matrix(rows, cols, E(_, _)) ==
    Tuple([i \in 1..rows |-> Tuple([j \in 1..cols |-> E(i, j)])])
TMap2(Op(_, _), a, b) ==
    Matrix(Rows(a), Cols(a), LAMBDA i, j : Op(a[i][j], b[i][j]))
TFill(like, c) == Matrix(Rows(like), Cols(like), LAMBDA i, j : c)
\* Tensor.sum(): all elements.
TSumAll(t) == RSumSeq(Tuple([i \in 1..Rows(t) |-> RSumSeq(t[i])]))
\* Tensor.sum(0): dimension 0 is reduced, a tensor of shape 1 x Cols remains.
TSum0(t) ==
    Matrix(1, Cols(t), LAMBDA r, j : RSumSeq(Tuple([i \in 1..Rows(t) |-> t[i][j]])))
\* Tensor.mean(): a tensor of shape 1 x 1.
TMean(t) == <<<<RDivInt(TSumAll(t), Rows(t) * Cols(t))>>>>

\* ------------------------------------------------------------- values
\* A Python value of the module: None, a numbers.Number, or a tensor.
None == [k |-> "none"]
Num(r) == [k |-> "num", v |-> r]
Tensor(d) == [k |-> "tensor", d |-> d]
IsNumber(v) == v.k = "num"

\* Binary arithmetic with Python/torch broadcasting of a Number over a tensor.
VBin(Op(_, _), a, b) ==
    CASE a.k = "num" /\ b.k = "num" -> Num(Op(a.v, b.v))
      [] a.k = "num" /\ b.k = "tensor" -> Tensor(TMap2(Op, TFill(b.d, a.v), b.d))
      [] a.k = "tensor" /\ b.k = "num" -> Tensor(TMap2(Op, a.d, TFill(a.d, b.v)))
      [] OTHER -> Tensor(TMap2(Op, a.d, b.d))
VAdd(a, b) == VBin(RAdd, a, b)
VSub(a, b) == VBin(RSub, a, b)
VMul(a, b) == VBin(RMul, a, b)
\* The single element of a Number or of a tensor of shape 1 x 1.
Scalar(v) == IF v.k = "num" THEN v.v ELSE v.d[1][1]

\* ------------------------------------------------------------- traces
\* A trace: named random variables, each sampled or conditioned, with a
\* log-probability tensor of shape Dim0 x Dim1 per node.
NameSeq == <<"x", "y", "z", "u">>
Names == {NameSeq[i] : i \in 1..Len(NameSeq)}
Idx(n) == CHOOSE i \in 1..Len(NameSeq) : NameSeq[i] = n
NoDim == -1
Size(axis) == IF axis = 0 THEN Dim0 ELSE Dim1

\* The log-probability of node n of trace t at index <<i, j>>.
Raw(t, n) ==
    Matrix(Dim0, Dim1, LAMBDA i, j :
        -(((2 * i + j + Idx(n)) * (i + 2 * j + t.seed) + Idx(n) * j) % (MaxVal + 1)))

\* Trace.conditioned(), Trace.sampled(), `n in trace`.
conditioned(t) == SelectSeq(NameSeq, LAMBDA n : t.kind[n] = "conditioned")
sampled(t) == SelectSeq(NameSeq, LAMBDA n : t.kind[n] = "sampled")
contains(t, n) == t.kind[n] # "absent"

\* The element of a node tensor whose index along `axis` is i and whose
\* index along the other axis is j.
At(raw, axis, i, j) == IF axis = 0 THEN raw[i][j] ELSE raw[j][i]

RECURSIVE SumTo(_, _)
SumTo(f, n) == IF n = 0 THEN 0 ELSE f[n] + SumTo(f, n - 1)

\* The log-probability of one node reduced over every dimension that is
\* neither the sample nor the batch dimension; the sample dimension, when
\* given, is dimension 0 of the result and the batch dimension follows it.
batch_sum(raw, sample_dim, batch_dim) ==
    IF sample_dim # NoDim /\ batch_dim # NoDim
    THEN Matrix(Size(sample_dim), Size(batch_dim),
                LAMBDA s, b : At(raw, sample_dim, s, b))
    ELSE IF sample_dim # NoDim
    THEN Matrix(Size(sample_dim), 1, LAMBDA s, b :
             SumTo([j \in 1..Size(1 - sample_dim) |-> At(raw, sample_dim, s, j)],
                   Size(1 - sample_dim)))
    ELSE IF batch_dim # NoDim
    THEN Matrix(Size(batch_dim), 1, LAMBDA b, c :
             SumTo([j \in 1..Size(1 - batch_dim) |-> At(raw, batch_dim, b, j)],
                   Size(1 - batch_dim)))
    ELSE Matrix(1, 1, LAMBDA s, b :
             SumTo([i \in 1..Dim0 |-> SumTo(raw[i], Dim1)], Dim0))

\* Trace.log_joint(sample_dim, batch_dim, nodes): the sum of the reduced
\* log-probabilities of the named nodes that the trace holds; a tensor of
\* the reduced shape, all zero when no named node is held.
log_joint(t, sample_dim, batch_dim, nodes) ==
    LET held == SelectSeq(nodes, LAMBDA n : contains(t, n))
        parts == Tuple([k \in 1..Len(held) |->
                     batch_sum(Raw(t, held[k]), sample_dim, batch_dim)])
        rows == IF sample_dim # NoDim THEN Size(sample_dim)
                ELSE IF batch_dim # NoDim THEN Size(batch_dim) ELSE 1
        cols == IF sample_dim # NoDim /\ batch_dim # NoDim THEN Size(batch_dim) ELSE 1
    IN  Tensor(Matrix(rows, cols, LAMBDA i, j :
            RInt(SumTo([k \in 1..Len(held) |-> parts[k][i][j]], Len(held)))))

\* ------------------------------------------------------------ softmax
\* torch.nn.functional.softmax(input, dim) for dim = 0 and dim = 1 over an
\* integer-valued tensor; the exponents are shifted by the minimum of the
\* slice, which leaves the quotient unchanged.
ExpBase == 2
Min(S) == CHOOSE m \in S : \A n \in S : m <= n
softmax_slice(v) ==
    LET lo == Min({v[i][1] : i \in 1..Len(v)})
        e == Tuple([i \in 1..Len(v) |-> ExpBase ^ (v[i][1] - lo)])
        tot == SumTo(e, Len(v))
    IN  Tuple([i \in 1..Len(v) |-> Rat(e[i], tot)])
softmax(input, dim) ==
    IF dim = 0
    THEN LET cols == Tuple([j \in 1..Cols(input) |->
                         softmax_slice(Tuple([i \in 1..Rows(input) |-> input[i][j]]))])
         IN  Matrix(Rows(input), Cols(input), LAMBDA i, j : cols[j][i])
    ELSE Tuple([i \in 1..Rows(input) |-> softmax_slice(input[i])])

\* ------------------------------------------------- calls and outcomes
\* An outcome of a call: the value returned or the error raised (r), the
\* trace operations performed in order (log), and the importance weights
\* when the weighted path was taken (weights, else None).
Err(op) == [k |-> "err", op |-> op]
IsErr(v) == v.k = "err"
Out(r, log, weights) == [r |-> r, log |-> log, weights |-> weights]
NoFault == "none"

RECURSIVE Upto(_, _)
Upto(ops, f) ==
    IF Head(ops) = f THEN <<f>> ELSE <<Head(ops)>> \o Upto(Tail(ops), f)
InSeq(ops, f) == \E i \in 1..Len(ops) : ops[i] = f
\* Variant: the error of the raising operation is caught and the call goes on.
RunCatching(ops, fault, value, w) ==
    Out(value, ops, IF IsErr(value) THEN None ELSE w)
\* The trace operations `ops` are performed in order; the one named `fault`
\* raises, and nothing in this module catches it.  With no raising
\* operation the call ends with `value` (itself a value or a tensor error).
Run(ops, fault, value, w) ==
    IF InSeq(ops, fault)
    THEN Out(Err(fault), Upto(ops, fault), None)
    ELSE Out(value, ops, IF IsErr(value) THEN None ELSE w)

Repeat(n, e) == Tuple([i \in 1..n |-> e])
Filter(s, Test(_)) == SelectSeq(s, Test)

\* Variant: softmax along dimension 1.
importance_weights_dim1(lw) == Tensor(softmax(lw.d, 1))
\* weights = softmax(log_weights, 0)
importance_weights(lw) == Tensor(softmax(lw.d, 0))
\* (weights * term).sum(0).mean()
WeightedSumMean(w, term) ==
    Tensor(TMean(TSum0(TMap2(RMul, w.d, term.d))))
Mean(v) == Tensor(TMean(v.d))

\* Variant of log_like: the test `sample_dim is None` is missing.
log_like_always_weighted(q, p, sample_dim, batch_dim, log_weights, fault) ==
    LET pc0 == conditioned(p)
        x == Filter(pc0, LAMBDA n : ~contains(q, n))
        log_px == log_joint(p, sample_dim, batch_dim, x)
        ops1 == <<"p.conditioned">> \o Repeat(Len(pc0), "q.contains")
                    \o <<"p.log_joint(x)">>
        lw == IF log_weights = None
              THEN log_joint(q, sample_dim, batch_dim, conditioned(q))
              ELSE log_weights
        ops2 == IF log_weights = None
                THEN ops1 \o <<"q.conditioned", "q.log_joint(y)">>
                ELSE ops1
    IN  IF IsNumber(lw)
        THEN Run(ops2, fault, Mean(log_px), None)
        ELSE LET w == importance_weights(lw)
             IN  Run(ops2, fault, WeightedSumMean(w, log_px), w)

\* ------------------------------------------------------------ log_like
log_like(q, p, sample_dim, batch_dim, log_weights, fault) ==
    LET pc0 == conditioned(p)
        x == Filter(pc0, LAMBDA n : ~contains(q, n))
        log_px == log_joint(p, sample_dim, batch_dim, x)
        ops1 == <<"p.conditioned">> \o Repeat(Len(pc0), "q.contains")
                    \o <<"p.log_joint(x)">>
        lw == IF log_weights = None
              THEN log_joint(q, sample_dim, batch_dim, conditioned(q))
              ELSE log_weights
        ops2 == IF log_weights = None
                THEN ops1 \o <<"q.conditioned", "q.log_joint(y)">>
                ELSE ops1
    IN  IF sample_dim = NoDim
        THEN Run(ops1, fault, Mean(log_px), None)
        ELSE IF IsNumber(lw)
        THEN Run(ops2, fault, Mean(log_px), None)
        ELSE LET w == importance_weights(lw)
             IN  Run(ops2, fault, WeightedSumMean(w, log_px), w)

\* ------------------------------------------------------------------ kl
\* Variant: log p(z) enters with the wrong sign.
integrand_sign(log_qy, log_qz, log_py, log_pz) ==
    VAdd(VSub(VAdd(log_qy, log_qz), log_py), log_pz)
\* log_qp = (log_qy + log_qz - log_py - log_pz)
integrand(log_qy, log_qz, log_py, log_pz) ==
    VSub(VSub(VAdd(log_qy, log_qz), log_py), log_pz)
\* Variant of kl: the test `isinstance(log_weights, Number)` is missing, so
\* a number reaches softmax, which raises.
kl_no_number_test(q, p, sample_dim, batch_dim, log_weights, fault) ==
    LET y == conditioned(q)
        qs == sampled(q)
        z == Filter(qs, LAMBDA n : contains(p, n))
        log_qy == IF log_weights = None
                  THEN log_joint(q, sample_dim, batch_dim, y)
                  ELSE log_weights
        log_py == log_joint(p, sample_dim, batch_dim, y)
        log_pz == log_joint(p, sample_dim, batch_dim, z)
        log_qz == log_joint(q, sample_dim, batch_dim, z)
        log_qp == integrand(log_qy, log_qz, log_py, log_pz)
        ops == <<"q.conditioned", "q.sampled">> \o Repeat(Len(qs), "p.contains")
                 \o (IF log_weights = None THEN <<"q.log_joint(y)">> ELSE <<>>)
                 \o <<"p.log_joint(y)", "p.log_joint(z)", "q.log_joint(z)">>
    IN  IF sample_dim = NoDim
        THEN Run(ops, fault, Mean(log_qp), None)
        ELSE IF log_weights = None \/ IsNumber(log_weights)
        THEN Run(ops, fault, Err("softmax"), None)
        ELSE LET w == importance_weights(log_weights)
             IN  Run(ops, fault, WeightedSumMean(w, log_qp), w)

kl(q, p, sample_dim, batch_dim, log_weights, fault) ==
    LET y == conditioned(q)
        qs == sampled(q)
        z == Filter(qs, LAMBDA n : contains(p, n))
        log_qy == IF log_weights = None
                  THEN log_joint(q, sample_dim, batch_dim, y)
                  ELSE log_weights
        log_py == log_joint(p, sample_dim, batch_dim, y)
        log_pz == log_joint(p, sample_dim, batch_dim, z)
        log_qz == log_joint(q, sample_dim, batch_dim, z)
        log_qp == integrand(log_qy, log_qz, log_py, log_pz)
        ops == <<"q.conditioned", "q.sampled">> \o Repeat(Len(qs), "p.contains")
                 \o (IF log_weights = None THEN <<"q.log_joint(y)">> ELSE <<>>)
                 \o <<"p.log_joint(y)", "p.log_joint(z)", "q.log_joint(z)">>
    IN  IF sample_dim = NoDim
        THEN Run(ops, fault, Mean(log_qp), None)
        ELSE IF IsNumber(log_weights)
        THEN Run(ops, fault, Mean(log_qp), None)
        ELSE IF log_weights = None
        THEN \* softmax(None, 0): None has no softmax
             Run(ops, fault, Err("softmax"), None)
        ELSE LET w == importance_weights(log_weights)
             IN  Run(ops, fault, WeightedSumMean(w, log_qp), w)

\* ------------------------------------------------------------------ ml
\* Variant of ml: log q(y) is computed from q even when log_weights is given.
ml_recompute(q, sample_dim, batch_dim, log_weights, fault) ==
    LET log_qy == log_joint(q, sample_dim, batch_dim, conditioned(q))
    IN  Run(<<"q.conditioned", "q.log_joint(y)">>, fault, Mean(log_qy), None)

ml(q, sample_dim, batch_dim, log_weights, fault) ==
    LET log_qy == IF log_weights = None
                  THEN log_joint(q, sample_dim, batch_dim, conditioned(q))
                  ELSE log_weights
        ops == IF log_weights = None
               THEN <<"q.conditioned", "q.log_joint(y)">>
               ELSE <<>>
    IN  IF IsNumber(log_qy)
        THEN Run(ops, fault, log_qy, None)
        ELSE Run(ops, fault, Mean(log_qy), None)

\* ---------------------------------------------------------------- state
VARIABLES
    q, p,          \* the encoder and the decoder trace
    pc,            \* "idle", "again", a position inside elbo, or "done"
    fn,            \* the function called
    args,          \* its arguments, and the trace operation that raises
    log_weights,   \* elbo's local log_weights
    t_ll, t_kl,    \* elbo's evaluated terms
    result,        \* the value returned or the error raised
    log,           \* the trace operations performed by the call, in order
    weights,       \* the importance weights of the call, if it used any
    prev           \* the result of the same call made just before, if any
vars == <<q, p, pc, fn, args, log_weights, t_ll, t_kl, result, log, weights, prev>>

Kinds(x, y, z, u) == [n \in Names |->
    CASE n = "x" -> x [] n = "y" -> y [] n = "z" -> z [] OTHER -> u]
Enc(seed) == [kind |-> Kinds("absent", "conditioned", "sampled", "sampled"), seed |-> seed]
Dec(seed) == [kind |-> Kinds("conditioned", "conditioned", "sampled", "absent"), seed |-> seed]
Uns(seed) == [kind |-> Kinds("absent", "absent", "sampled", "absent"), seed |-> seed]
Gen(seed) == [kind |-> Kinds("conditioned", "absent", "conditioned", "sampled"), seed |-> seed]
\* The pairs <<q, p>> of traces the calls are made on.
Pairs == { <<Enc(0), Dec(2)>>, <<Enc(0), Enc(1)>>, <<Enc(1), Enc(0)>>,
           <<Uns(1), Dec(2)>>, <<Dec(2), Dec(1)>>, <<Dec(1), Enc(1)>>,
           <<Enc(1), Gen(0)>>, <<Uns(0), Gen(2)>> }

Dims == {d \in {NoDim, 0, 1} \X {NoDim, 0, 1} : d[1] # d[2] \/ d[1] = NoDim}
Coefs == { <<Rat(1, 10), RInt(1)>>, <<Rat(1, 2), RInt(2)>>, <<RInt(0), Rat(3, 2)>> }
\* The trace operation that raises during a call, if any does.
Faults == {NoFault, "p.conditioned", "q.contains", "p.log_joint(x)",
           "q.conditioned", "q.log_joint(y)", "q.sampled", "p.contains",
           "p.log_joint(y)", "p.log_joint(z)", "q.log_joint(z)"}
\* What a caller passes as log_weights: nothing, a number, or a tensor of
\* the shape the traces give for these dimensions.
LogWeights(sample_dim, batch_dim) ==
    {None, Num(RInt(-1)), Num(Rat(1, 2)),
     log_joint(q, sample_dim, batch_dim, conditioned(q)),
     log_joint(q, sample_dim, batch_dim, <<"z">>)}
Args(d, lw, c, f) ==
    [sample_dim |-> d[1], batch_dim |-> d[2], log_weights |-> lw,
     alpha |-> c[1], beta |-> c[2], fault |-> f]
Default == <<Rat(1, 10), RInt(1)>>
NoArgs == Args(<<NoDim, NoDim>>, None, Default, NoFault)

Init ==
    /\ \E pr \in Pairs : q = pr[1] /\ p = pr[2]
    /\ pc = "idle" /\ fn = "none" /\ args = NoArgs
    /\ log_weights = None /\ t_ll = None /\ t_kl = None
    /\ result = None /\ log = <<>> /\ weights = None /\ prev = None

\* Variant: the call takes the node z out of q.
FinishConsuming(o) ==
    /\ pc' = "done" /\ result' = o.r /\ log' = o.log /\ weights' = o.weights
    /\ q' = [q EXCEPT !.kind["z"] = "absent"]
    /\ UNCHANGED <<p, log_weights, t_ll, t_kl>>

\* A call of log_like, kl or ml runs to its end.
Finish(o) ==
    /\ pc' = "done" /\ result' = o.r /\ log' = o.log /\ weights' = o.weights
    /\ UNCHANGED <<q, p, log_weights, t_ll, t_kl>>

\* elbo, line 46: log_weights = q.log_joint(sample_dim, batch_dim, q.conditioned())
ElboBegin(a) ==
    LET o == Run(<<"q.conditioned", "q.log_joint(y)">>, a.fault,
                 log_joint(q, a.sample_dim, a.batch_dim, conditioned(q)), None)
    IN  /\ log' = o.log /\ weights' = None
        /\ t_ll' = None /\ t_kl' = None
        /\ IF IsErr(o.r)
           THEN pc' = "done" /\ result' = o.r /\ log_weights' = None
           ELSE pc' = "elbo_log_like" /\ result' = None /\ log_weights' = o.r
        /\ UNCHANGED <<q, p>>

\* The arguments a caller may pass to elbo, and to log_like, kl and ml.
ElboArgs == {Args(d, None, c, f) : d \in Dims, c \in Coefs, f \in Faults}
TermArgs ==
    UNION {{Args(d, lw, Default, f) : lw \in LogWeights(d[1], d[2]), f \in Faults} :
           d \in Dims}
\* A call of f is made with fresh arguments, or made again with the same ones.
Entry(f, fresh) ==
    IF pc = "idle" THEN fresh
    ELSE IF pc = "again" /\ fn = f THEN {args} ELSE {}
Enter(f, a) ==
    /\ fn' = f /\ args' = a
    /\ prev' = IF pc = "idle" THEN None ELSE prev

CallElbo ==
    \E a \in Entry("elbo", ElboArgs) : Enter("elbo", a) /\ ElboBegin(a)
CallLogLike ==
    \E a \in Entry("log_like", TermArgs) :
        /\ Enter("log_like", a)
        /\ Finish(log_like(q, p, a.sample_dim, a.batch_dim, a.log_weights, a.fault))
CallKl ==
    \E a \in Entry("kl", TermArgs) :
        /\ Enter("kl", a)
        /\ Finish(kl(q, p, a.sample_dim, a.batch_dim, a.log_weights, a.fault))
CallMl ==
    \E a \in Entry("ml", TermArgs) :
        /\ Enter("ml", a)
        /\ Finish(ml(q, a.sample_dim, a.batch_dim, a.log_weights, a.fault))

\* Variant: log_like is called without the shared log_weights.
ElboLogLikeRecompute ==
    /\ pc = "elbo_log_like"
    /\ LET o == log_like(q, p, args.sample_dim, args.batch_dim, None, args.fault)
       IN  /\ log' = log \o <<"call log_like">> \o o.log
           /\ IF IsErr(o.r)
              THEN pc' = "done" /\ result' = o.r /\ t_ll' = None
              ELSE pc' = "elbo_kl" /\ result' = None /\ t_ll' = o.r
    /\ UNCHANGED <<q, p, fn, args, log_weights, t_kl, weights, prev>>

\* elbo, line 47: log_like(q, p, sample_dim, batch_dim, log_weights)
ElboLogLike ==
    /\ pc = "elbo_log_like"
    /\ LET o == log_like(q, p, args.sample_dim, args.batch_dim, log_weights, args.fault)
       IN  /\ log' = log \o <<"call log_like">> \o o.log
           /\ IF IsErr(o.r)
              THEN pc' = "done" /\ result' = o.r /\ t_ll' = None
              ELSE pc' = "elbo_kl" /\ result' = None /\ t_ll' = o.r
    /\ UNCHANGED <<q, p, fn, args, log_weights, t_kl, weights, prev>>

\* elbo, line 48: beta * kl(q, p, sample_dim, batch_dim, log_weights)
ElboKl ==
    /\ pc = "elbo_kl"
    /\ LET o == kl(q, p, args.sample_dim, args.batch_dim, log_weights, args.fault)
       IN  /\ log' = log \o <<"call kl">> \o o.log
           /\ IF IsErr(o.r)
              THEN pc' = "done" /\ result' = o.r /\ t_kl' = None
              ELSE pc' = "elbo_ml" /\ result' = None /\ t_kl' = o.r
    /\ UNCHANGED <<q, p, fn, args, log_weights, t_ll, weights, prev>>

\* Variant: the ml term is weighted by beta alone.
CombineBeta(ll, k, m, alpha, beta) ==
    VAdd(VSub(ll, VMul(Num(beta), k)), VMul(Num(beta), m))
\* log_like - beta * kl + (beta + alpha) * ml
Combine(ll, k, m, alpha, beta) ==
    VAdd(VSub(ll, VMul(Num(beta), k)), VMul(Num(RAdd(beta, alpha)), m))

\* elbo, line 49: (beta + alpha) * ml(q, sample_dim, batch_dim, log_weights)
ElboMl ==
    /\ pc = "elbo_ml"
    /\ LET o == ml(q, args.sample_dim, args.batch_dim, log_weights, args.fault)
       IN  /\ log' = log \o <<"call ml">> \o o.log
           /\ result' = IF IsErr(o.r) THEN o.r
                        ELSE Combine(t_ll, t_kl, o.r, args.alpha, args.beta)
    /\ pc' = "done"
    /\ UNCHANGED <<q, p, fn, args, log_weights, t_ll, t_kl, weights, prev>>

\* The call has returned and the caller is about to make it again with the
\* same arguments; the locals of the finished call are gone.
Again ==
    /\ pc = "done" /\ prev = None
    /\ pc' = "again" /\ prev' = result
    /\ log_weights' = None /\ t_ll' = None /\ t_kl' = None
    /\ result' = None /\ log' = <<>> /\ weights' = None
    /\ UNCHANGED <<q, p, fn, args>>

\* The call has returned; its locals are gone.
Return ==
    /\ pc = "done"
    /\ pc' = "idle" /\ fn' = "none" /\ args' = NoArgs
    /\ log_weights' = None /\ t_ll' = None /\ t_kl' = None
    /\ result' = None /\ log' = <<>> /\ weights' = None /\ prev' = None
    /\ UNCHANGED <<q, p>>

Next ==
    \/ CallElbo \/ ElboLogLike \/ ElboKl \/ ElboMl
    \/ CallLogLike \/ CallKl \/ CallMl
    \/ Again \/ Return

Spec == Init /\ [][Next]_vars

\* --------------------------------------------------------- properties
Done(f) == pc = "done" /\ fn = f
Clean == args.fault = NoFault
SD == args.sample_dim
BD == args.batch_dim
\* The plain mean of a Number or of all the elements of a tensor.
PlainMean(v) ==
    IF IsNumber(v) THEN v.v ELSE RDivInt(TSumAll(v.d), Rows(v.d) * Cols(v.d))
\* The names x, y and z of the docstrings, as sequences.
XNames == SelectSeq(NameSeq,
              LAMBDA n : p.kind[n] = "conditioned" /\ q.kind[n] = "absent")
YNames == SelectSeq(NameSeq, LAMBDA n : q.kind[n] = "conditioned")
ZNames == SelectSeq(NameSeq,
              LAMBDA n : q.kind[n] = "sampled" /\ p.kind[n] # "absent")
\* q's joint log-density over its conditioned names.
Derived == log_joint(q, SD, BD, YNames)
\* log q(y): the supplied log_weights if given, q's joint log-density if not.
LogQy == IF args.log_weights = None THEN Derived ELSE args.log_weights
\* The log-density terms of log_like and of kl.
TermLL == log_joint(p, SD, BD, XNames)
TermKL ==
    VSub(VSub(VAdd(LogQy, log_joint(q, SD, BD, ZNames)),
              log_joint(p, SD, BD, YNames)),
         log_joint(p, SD, BD, ZNames))
Count(s, e) == Cardinality({i \in 1..Len(s) : s[i] = e})

\* C1: elbo returns log_like - beta * kl + (beta + alpha) * ml, the three
\* terms computed independently from the one value
\* w = q.log_joint(sample_dim, batch_dim, q.conditioned()).
C1_ElboIsCombination ==
    (Done("elbo") /\ Clean) =>
        LET w == Derived
            ll == log_like(q, p, SD, BD, w, NoFault).r
            k == kl(q, p, SD, BD, w, NoFault).r
            m == ml(q, SD, BD, w, NoFault).r
        IN  /\ ~IsErr(result)
            /\ Scalar(result) =
                 RAdd(RSub(Scalar(ll), RMul(args.beta, Scalar(k))),
                      RMul(RAdd(args.beta, args.alpha), Scalar(m)))
C1_Witness ==
    /\ Done("elbo") /\ Clean /\ ~IsErr(result)
    /\ SD = 1 /\ BD = 0 /\ args.alpha = Rat(1, 2) /\ args.beta = RInt(2)
    /\ Scalar(t_ll) # RZero /\ Scalar(t_kl) # RZero /\ Scalar(result) # RZero

\* C2: with sample_dim None, log_like, kl and ml return the plain mean of
\* their log-density term, whatever log_weights is (absent, a number or a
\* tensor), and apply no softmax weighting.
C2_NoSampleDimPlainMean ==
    (pc = "done" /\ fn \in {"log_like", "kl", "ml"} /\ Clean /\ SD = NoDim) =>
        /\ ~IsErr(result)
        /\ weights = None
        /\ Scalar(result) =
             PlainMean(CASE fn = "log_like" -> TermLL
                         [] fn = "kl" -> TermKL
                         [] OTHER -> LogQy)
C2_Witness ==
    /\ Done("kl") /\ Clean /\ SD = NoDim /\ BD = 1
    /\ args.log_weights.k = "tensor" /\ args.log_weights # Derived
    /\ ~IsErr(result) /\ Scalar(result) # RZero

\* C3: with sample_dim given and a numeric log_weights, log_like and kl
\* return the plain mean of their term, which is what the weighted path
\* gives with uniform weights 1/S over the S samples.
Uniform(term) ==
    Tensor(Matrix(Rows(term.d), Cols(term.d), LAMBDA s, b : Rat(1, Rows(term.d))))
C3_NumberIsUniformWeights ==
    (pc = "done" /\ fn \in {"log_like", "kl"} /\ Clean /\ SD # NoDim
        /\ IsNumber(args.log_weights)) =>
        LET term == IF fn = "log_like" THEN TermLL ELSE TermKL
        IN  /\ ~IsErr(result)
            /\ weights = None
            /\ Scalar(result) = PlainMean(term)
            /\ Scalar(result) = Scalar(WeightedSumMean(Uniform(term), term))
C3_Witness ==
    /\ Done("kl") /\ Clean /\ SD = 1 /\ BD = 0 /\ IsNumber(args.log_weights)
    /\ ~IsErr(result) /\ Scalar(result) # RZero
    /\ Scalar(result) #
         Scalar(WeightedSumMean(importance_weights(Derived), TermKL))

\* C4: with sample_dim given and no log_weights, log_like and kl derive the
\* log-weights from q.log_joint(sample_dim, batch_dim, q.conditioned()) and
\* return what a call given that value as log_weights returns, without
\* failing.
C4_DerivedWeightsAsSupplied ==
    (pc = "done" /\ fn \in {"log_like", "kl"} /\ Clean /\ SD # NoDim
        /\ args.log_weights = None) =>
        /\ ~IsErr(result)
        /\ result = IF fn = "log_like"
                    THEN log_like(q, p, SD, BD, Derived, NoFault).r
                    ELSE kl(q, p, SD, BD, Derived, NoFault).r

\* C5: kl's integrand is log q(y) + log q(z) - log p(y) - log p(z), y the
\* names conditioned in q and z the names sampled in q that p holds; for
\* traces with the same conditioned and the same sampled names, sample_dim
\* None and no log_weights, kl(p, q) = -kl(q, p).
SameNames == \A n \in Names : q.kind[n] = p.kind[n]
C5_KlAntisymmetric ==
    (Done("kl") /\ Clean /\ SameNames /\ SD = NoDim /\ args.log_weights = None) =>
        LET swapped == kl(p, q, SD, BD, None, NoFault).r
        IN  /\ ~IsErr(result) /\ ~IsErr(swapped)
            /\ Scalar(result) = PlainMean(TermKL)
            /\ Scalar(swapped) = RNeg(Scalar(result))
C5_Witness ==
    /\ Done("kl") /\ Clean /\ SameNames /\ SD = NoDim /\ args.log_weights = None
    /\ ~IsErr(result) /\ Scalar(result) # RZero
    /\ YNames # <<>> /\ ZNames # <<>>

\* C6: no call mutates the traces or the supplied log_weights, and a call
\* repeated with the same arguments returns the same result.
C6_CallsAreSideEffectFree ==
    [][ /\ q' = q /\ p' = p
        /\ (pc # "idle" /\ pc' # "idle") => args' = args
        /\ (pc' = "done" /\ prev' # None) => result' = prev' ]_vars
C6_Witness ==
    /\ Done("kl") /\ prev # None /\ weights # None
    /\ args.log_weights.k = "tensor" /\ result = prev

\* C7: an error raised by a trace or tensor operation ends the call with
\* that same error; nothing is evaluated after it, and in elbo the later
\* terms are not evaluated.
C7_ErrorsPropagate ==
    /\ InSeq(log, args.fault) =>
          /\ pc = "done" /\ result = Err(args.fault)
          /\ log[Len(log)] = args.fault /\ Count(log, args.fault) = 1
    /\ (pc = "done" /\ IsErr(result)) =>
          \/ result = Err(args.fault) /\ InSeq(log, args.fault)
          \/ /\ result = Err("softmax") /\ fn = "kl"
             /\ args.log_weights = None /\ SD # NoDim
C7_Witness ==
    /\ Done("elbo") /\ result = Err("q.sampled")
    /\ InSeq(log, "call log_like") /\ InSeq(log, "call kl")
    /\ ~InSeq(log, "call ml") /\ t_ll # None

\* C8: ml returns log q(y) unchanged when it is a number and its unweighted
\* mean otherwise, log q(y) being the supplied log_weights if given and
\* q's joint log-density over its conditioned names if not; it applies no
\* importance weighting and calls q.log_joint only when log_weights is
\* absent.
C8_MlIsPlainMean ==
    Done("ml") =>
        /\ weights = None
        /\ args.log_weights # None => (log = <<>> /\ ~IsErr(result))
        /\ (args.log_weights = None /\ ~IsErr(result)) =>
               log = <<"q.conditioned", "q.log_joint(y)">>
        /\ ~IsErr(result) =>
               result = IF IsNumber(LogQy) THEN LogQy
                        ELSE Tensor(<< <<PlainMean(LogQy)>> >>)
C8_Witness ==
    /\ Done("ml") /\ SD = 0 /\ BD = 1 /\ args.log_weights = None
    /\ ~IsErr(result)
    /\ Scalar(result) #
         Scalar(WeightedSumMean(importance_weights(Derived), Derived))

\* C9: during one call of elbo, q.log_joint over q's conditioned names is
\* evaluated exactly once, before any of the three terms, and no term
\* evaluates it again.
Calls == {"call log_like", "call kl", "call ml"}
C9_LogWeightsComputedOnce ==
    (fn = "elbo" /\ pc \notin {"idle", "again"}) =>
        /\ Count(log, "q.log_joint(y)") <= 1
        /\ \A i \in 1..Len(log) :
              log[i] \in Calls => (i > 2 /\ log[2] = "q.log_joint(y)")
        /\ pc # "done" => Count(log, "q.log_joint(y)") = 1
        /\ (pc = "done" /\ ~IsErr(result)) =>
              /\ Count(log, "q.log_joint(y)") = 1
              /\ \A c \in Calls : Count(log, c) = 1
C9_Witness ==
    /\ Done("elbo") /\ ~IsErr(result) /\ SD = 0 /\ BD = 1
    /\ YNames # <<>> /\ Count(log, "q.log_joint(y)") = 1

\* C10: on the weighted path of log_like and kl the log-weights are
\* normalised by softmax along the sample dimension and the weighted term
\* is summed along it: for every batch item the weights over the samples
\* sum to 1, whatever sample_dim the caller passes.
WeightedPath ==
    /\ pc = "done" /\ Clean /\ SD # NoDim
    /\ \/ fn = "log_like" /\ LogQy.k = "tensor"
       \/ fn = "kl" /\ args.log_weights.k = "tensor"
====
